---- MODULE Spec2Model ----
(***************************************************************************)
(* The speed-test measurement engine of device-test-app                    *)
(* (src/components/SpeedTest/SpeedTest.tsx, component Root).               *)
(*                                                                         *)
(* The React state of Root is the shared session; every invocation of      *)
(* runTest is an async function whose position (pc) and local variables    *)
(* are kept in call[r].  JavaScript is single-threaded: one action is the  *)
(* code that runs from one await (or timer callback) to the next, and all  *)
(* the setState calls of that stretch take effect together.                *)
(*                                                                         *)
(* JavaScript numbers are modelled exactly, as tagged rationals            *)
(* [k, n, d]: k = "num" is the number n/d in lowest terms, k = "nan" is    *)
(* NaN, k = "inf" is +Infinity and k = "null" is the null of a             *)
(* `number | null` state.                                                  *)
(***************************************************************************)
EXTENDS Integers, Sequences, FiniteSets, TLC

VARIABLES
    downloadSpeed,  \* useState<number | null>
    uploadSpeed,    \* useState<number | null>
    ping,           \* useState<number | null>
    jitter,         \* useState<number | null>
    ipInfo,         \* useState<{ip, isp} | null>
    isTesting,      \* useState(false)
    progress,       \* useState(0)
    phase,          \* useState('idle')
    error,          \* useState<string | null>: <<>> is null, <<s>> the string s
    ni,             \* position of fetchNetworkInfo, started by the mount effect
    call,           \* per invocation of runTest: position, locals, history
    lookup,         \* history of fetchNetworkInfo: requests issued, and what
                    \* the specifications that record it saw of the response
    webcam          \* WebcamTest: its state, the video element, the streams

vars == <<downloadSpeed, uploadSpeed, ping, jitter, ipInfo, isTesting,
          progress, phase, error, ni, call, lookup, webcam>>

----------------------------------------------------------------------------
(* Bounds of the model *)

\* invocations of runTest that may be in flight at once
NInv == 2
\* clock ticks per millisecond of performance.now() (a power of two: doubles)
Res == 2
\* body chunks read from one download response
MaxChunks == 4
\* Math.random() is drawn from multiples of 1/RandDen in [0, 1)
RandDen == 1024
\* calls of startCamera
MaxStarts == 4

Inv == 1..NInv

\* elapsed times of a latency probe, in ticks (0.5 ms, 2 ms, 3.5 ms)
SampleTicks == {1, 4, 7}
\* the latency samples 40, 42, 38, 41, 200 ms, in ticks
ExampleSamples == [k \in 1..5 |-> Res * <<40, 42, 38, 41, 200>>[k]]
Range(s) == {s[k] : k \in DOMAIN s}
\* sizes of a body chunk (value.length), bytes
ChunkLens == {1000000, 2500000}
\* elapsed milliseconds of a whole streamed download
ElapsedMs == {0, 1000, 4000}
\* numerators of the Math.random() draws: 0, 1/2 and the largest value below 1
RandomNums == {0, RandDen \div 2, RandDen - 1}

----------------------------------------------------------------------------
(* JavaScript values *)

Null == [k |-> "null", n |-> 0, d |-> 1]
NaN == [k |-> "nan", n |-> 0, d |-> 1]
Infinity == [k |-> "inf", n |-> 0, d |-> 1]
Num(x) == [k |-> "num", n |-> x, d |-> 1]

RECURSIVE GCD(_, _)
GCD(a, b) == IF b = 0 THEN a ELSE GCD(b, a % b)

\* the number a/b (a >= 0, b > 0) in lowest terms
Frac(a, b) == [k |-> "num", n |-> a \div GCD(a, b), d |-> b \div GCD(a, b)]

IsNumber(v) == v.k = "num"
IsInteger(v) == v.k = "num" /\ v.d = 1
\* v <= w for two "num" values
Leq(v, w) == v.n * w.d <= w.n * v.d

NullString == <<>>
Str(s) == <<s>>

\* the message of setError
FailedMessage == "Speed test failed. Please try again."

NullInfo == [set |-> FALSE, ip |-> "", isp |-> ""]
\* no parsed body (yet)
NoData == [success |-> FALSE, ip |-> "", connection |-> "absent", isp |-> "undefined"]
Info(ip, isp) == [set |-> TRUE, ip |-> ip, isp |-> isp]

----------------------------------------------------------------------------
(* Pure computations of the code *)

\* mutant: Math.floor in place of Math.round
MathRound_Floor(a, b) == a \div b

\* Math.round(a / b) for a >= 0, b > 0: the nearest integer, halves go up
MathRound(a, b) == (2 * a + b) \div (2 * b)

\* Math.min(...pings)
RECURSIVE MathMin(_)
MathMin(s) ==
    IF Len(s) = 1 THEN Head(s)
    ELSE LET m == MathMin(Tail(s)) IN IF Head(s) < m THEN Head(s) ELSE m

\* pings.reduce((a, b) => a + b, 0)
RECURSIVE ReduceSum(_)
ReduceSum(s) == IF s = <<>> THEN 0 ELSE Head(s) + ReduceSum(Tail(s))

Abs(x) == IF x < 0 THEN -x ELSE x

\* pings.reduce((a, b) => a + Math.abs(b - mean), 0) with mean = sum / len,
\* multiplied by len so that it stays an integer: the sum of |len * b - sum|
RECURSIVE ReduceAbsDev(_, _, _)
ReduceAbsDev(s, len, sum) ==
    IF s = <<>> THEN 0
    ELSE Abs(len * Head(s) - sum) + ReduceAbsDev(Tail(s), len, sum)

\* Math.round(minPing), pings in ticks
PingOf(pings) == MathRound(MathMin(pings), Res)

\* Math.round(jitterVal), jitterVal = (sum of |b - mean|) / len
JitterOf(pings) ==
    LET len == Len(pings)
        sum == ReduceSum(pings)
    IN MathRound(ReduceAbsDev(pings, len, sum), len * len * Res)

\* mutant: the offset `+ low` is forgotten
RandomInt_NoLow(u, low, high) == (u * (high - low + 1)) \div RandDen

\* Math.floor(Math.random() * (high - low + 1)) + low, Math.random() = u / RandDen
RandomInt(u, low, high) == ((u * (high - low + 1)) \div RandDen) + low

\* +(response.headers.get('Content-Length') || '5000000')
\* a header is [kind, value]: "absent" (get returns null), "empty" (the empty
\* string), "text" (a string that is no number) or "digits" (the decimal
\* digits of value)
Header(kind, value) == [kind |-> kind, value |-> value]
NoHeader == Header("none", 0)
Headers ==
    {Header("absent", 0), Header("empty", 0), Header("text", 0),
     Header("digits", 0), Header("digits", 2000000), Header("digits", 10000000)}
ContentLengthOf(header) ==
    CASE header.kind \in {"absent", "empty"} -> Num(5000000)
      [] header.kind = "text" -> NaN
      [] header.kind = "digits" -> Num(header.value)

\* Math.min(100, (receivedLength / contentLength) * 100)
StreamProgress(receivedLength, contentLength) ==
    IF contentLength.k = "nan" THEN NaN
    ELSE IF contentLength.n = 0
         THEN (IF receivedLength = 0 THEN NaN ELSE Num(100))
    ELSE IF receivedLength >= contentLength.n THEN Num(100)
    ELSE Frac(receivedLength * 100, contentLength.n)

\* mutant: the megabit is taken as 1,000,000 bits, not 1024 * 1024
SpeedMbps_Decimal(receivedLength, ms) ==
    IF ms = 0
    THEN (IF receivedLength = 0 THEN NaN ELSE Infinity)
    ELSE Num((receivedLength * 2 + ms * 125) \div (ms * 250))

\* Math.round(receivedLength * 8 / ((endTime - startTime) / 1000) / (1024 * 1024))
\* = round(receivedLength * 125 / (ms * 16384))
SpeedMbps(receivedLength, ms) ==
    IF ms = 0
    THEN (IF receivedLength = 0 THEN NaN ELSE Infinity)
    ELSE Num((receivedLength * 125 + ms * 8192) \div (ms * 16384))

----------------------------------------------------------------------------
(* State *)

\* the locals of an invocation that is not running
IdleCall ==
    [pc |-> "idle",            \* position in runTest and its callees
     pings |-> <<>>,           \* runPingTest: const pings: number[]
     i |-> 0,                  \* runPingTest: loop counter
     currentProgress |-> 0,    \* simulation: let currentProgress
     interval |-> FALSE,       \* simulation: the setInterval timer is active
     receivedLength |-> 0,     \* runDownloadTest: let receivedLength
     contentLength |-> Null,   \* runDownloadTest: const contentLength
     reads |-> 0,              \* chunks read so far
     ret |-> Null,             \* value the awaited callee resolved with
     \* history, read by the properties only
     from |-> "idle",          \* phase when runTest was invoked
     visited |-> <<>>,         \* phases this invocation has set
     log |-> <<>>,             \* outcome of each latency probe: ticks, or -1
     nOk |-> 0,                \* latency probes whose request resolved
     left |-> Null,            \* first state of a phase: progress before it
     path |-> "none",          \* path taken by runDownloadTest
     header |-> NoHeader,      \* Content-Length header of the response being read
     bytes |-> 0,              \* receivedLength when the stream completed
     ms |-> -1,                \* endTime - startTime when the stream completed
     ticks |-> 0,              \* ticks fired by the timer of the last simulation
     statuses |-> <<>>]        \* response.ok of each latency probe that resolved

\* WebcamTest after mount: no stream, the camera off
CameraOff ==
    [isActive |-> FALSE,       \* useState(false)
     error |-> NullString,     \* useState<string | null>(null)
     srcObject |-> 0,          \* videoRef.current.srcObject: 0 is null, or a stream
     pending |-> 0,            \* getUserMedia requests in flight
     streams |-> 0,            \* streams obtained so far, numbered from 1
     live |-> {},              \* streams whose tracks have not been stopped
     starts |-> 0,             \* calls of startCamera so far
     last |-> "none"]          \* history: the last step taken

Init ==
    /\ downloadSpeed = Null
    /\ uploadSpeed = Null
    /\ ping = Null
    /\ jitter = Null
    /\ ipInfo = NullInfo
    /\ isTesting = FALSE
    /\ progress = Num(0)
    /\ phase = "idle"
    /\ error = NullString
    /\ ni = "fetch"
    /\ call = [r \in Inv |-> IdleCall]
    \* the mount effect has called fetchNetworkInfo: one request is in flight
    /\ lookup = [requests |-> 1, ok |-> TRUE, outcome |-> "pending", data |-> NoData]
    /\ webcam = CameraOff

iterations == 5

----------------------------------------------------------------------------
(* runTest and runPingTest *)

\* mutant: setError(null) is forgotten at the start of a run
runTest_KeepsError(r) ==
    /\ call[r].pc \in {"idle", "returned"}
    /\ isTesting' = TRUE
    /\ downloadSpeed' = Null
    /\ uploadSpeed' = Null
    /\ ping' = Null
    /\ jitter' = Null
    /\ progress' = Num(0)
    /\ phase' = "ping"
    /\ call' = [call EXCEPT ![r] =
                   [IdleCall EXCEPT !.pc = "pingFetch",
                                    !.from = phase,
                                    !.visited = <<"ping">>]]
    /\ UNCHANGED <<error, ipInfo, ni, lookup, webcam>>

\* mutant: every run issues the network lookup again
runTest_FetchesInfo(r) ==
    /\ call[r].pc \in {"idle", "returned"}
    /\ isTesting' = TRUE
    /\ error' = NullString
    /\ downloadSpeed' = Null
    /\ uploadSpeed' = Null
    /\ ping' = Null
    /\ jitter' = Null
    /\ progress' = Num(0)
    /\ phase' = "ping"
    /\ call' = [call EXCEPT ![r] =
                   [IdleCall EXCEPT !.pc = "pingFetch",
                                    !.from = phase,
                                    !.visited = <<"ping">>]]
    /\ ni' = "fetch"
    /\ lookup' = [lookup EXCEPT !.requests = @ + 1]
    /\ UNCHANGED <<ipInfo, webcam>>

\* mutant: runTest returns at once while a test is running
runTest_Guarded(r) ==
    /\ ~isTesting
    /\ call[r].pc \in {"idle", "returned"}
    /\ isTesting' = TRUE
    /\ error' = NullString
    /\ downloadSpeed' = Null
    /\ uploadSpeed' = Null
    /\ ping' = Null
    /\ jitter' = Null
    /\ progress' = Num(0)
    /\ phase' = "ping"
    /\ call' = [call EXCEPT ![r] =
                   [IdleCall EXCEPT !.pc = "pingFetch",
                                    !.from = phase,
                                    !.visited = <<"ping">>]]
    /\ UNCHANGED <<ipInfo, ni, lookup, webcam>>

\* runTest up to the first await of runPingTest (the first probe is in flight)
runTest(r) ==
    /\ call[r].pc \in {"idle", "returned"}
    /\ isTesting' = TRUE
    /\ error' = NullString
    /\ downloadSpeed' = Null
    /\ uploadSpeed' = Null
    /\ ping' = Null
    /\ jitter' = Null
    /\ progress' = Num(0)
    /\ phase' = "ping"
    /\ call' = [call EXCEPT ![r] =
                   [IdleCall EXCEPT !.pc = "pingFetch",
                                    !.from = phase,
                                    !.visited = <<"ping">>]]
    /\ UNCHANGED <<ipInfo, ni, lookup, webcam>>

\* the HEAD request resolved (with any status): a sample, the elapsed time
\* drawn from `ticks`, is pushed
PingFetchResolvedIn(r, ticks) ==
    /\ call[r].pc = "pingFetch"
    /\ \E t \in ticks:
          call' = [call EXCEPT ![r].pings = Append(@, t),
                               ![r].log = Append(@, t),
                               ![r].nOk = @ + 1,
                               ![r].pc = "pingPause"]
    /\ UNCHANGED <<downloadSpeed, uploadSpeed, ping, jitter, ipInfo, isTesting,
                   progress, phase, error, ni, lookup, webcam>>

PingFetchResolved(r) == PingFetchResolvedIn(r, SampleTicks)

\* mutant: the sample of a response that is not ok is dropped
ProbeResolved_ChecksStatus(r) ==
    /\ call[r].pc = "pingFetch"
    /\ \E t \in SampleTicks, ok \in BOOLEAN:
          IF ok
          THEN call' = [call EXCEPT ![r].pings = Append(@, t),
                                    ![r].log = Append(@, t),
                                    ![r].nOk = @ + 1,
                                    ![r].statuses = Append(@, ok),
                                    ![r].pc = "pingPause"]
          ELSE call' = [call EXCEPT ![r].log = Append(@, t),
                                    ![r].nOk = @ + 1,
                                    ![r].statuses = Append(@, ok),
                                    ![r].pc = "pingPause"]
    /\ UNCHANGED <<downloadSpeed, uploadSpeed, ping, jitter, ipInfo, isTesting,
                   progress, phase, error, ni, lookup, webcam>>

\* the same step, recording the status of the response, which the code
\* never reads: the sample is pushed whether the response is ok or not
ProbeResolved(r) ==
    /\ call[r].pc = "pingFetch"
    /\ \E t \in SampleTicks, ok \in BOOLEAN:
          call' = [call EXCEPT ![r].pings = Append(@, t),
                               ![r].log = Append(@, t),
                               ![r].nOk = @ + 1,
                               ![r].statuses = Append(@, ok),
                               ![r].pc = "pingPause"]
    /\ UNCHANGED <<downloadSpeed, uploadSpeed, ping, jitter, ipInfo, isTesting,
                   progress, phase, error, ni, lookup, webcam>>

\* mutant: the sample is pushed after the try block, also for a rejected request
PingFetchRejected_Pushes(r) ==
    /\ call[r].pc = "pingFetch"
    /\ \E t \in SampleTicks:
          call' = [call EXCEPT ![r].pings = Append(@, t),
                               ![r].log = Append(@, -1),
                               ![r].pc = "pingPause"]
    /\ UNCHANGED <<downloadSpeed, uploadSpeed, ping, jitter, ipInfo, isTesting,
                   progress, phase, error, ni, lookup, webcam>>

\* mutant: the catch of the probe records the failure with setError
PingFetchRejected_SetsError(r) ==
    /\ call[r].pc = "pingFetch"
    /\ error' = Str(FailedMessage)
    /\ call' = [call EXCEPT ![r].log = Append(@, -1),
                            ![r].pc = "pingPause"]
    /\ UNCHANGED <<downloadSpeed, uploadSpeed, ping, jitter, ipInfo, isTesting,
                   progress, phase, ni, lookup, webcam>>

\* mutant: a rejected probe goes on to the next iteration without the pause
PingFetchRejected_SkipsPause(r) ==
    /\ call[r].pc = "pingFetch"
    /\ IF call[r].i + 1 < iterations
       THEN /\ call' = [call EXCEPT ![r].log = Append(@, -1),
                                    ![r].i = @ + 1]
            /\ UNCHANGED <<ping, jitter>>
       ELSE /\ call' = [call EXCEPT ![r].log = Append(@, -1),
                                    ![r].i = @ + 1,
                                    ![r].pc = "pingDone"]
            /\ IF Len(call[r].pings) > 0
               THEN /\ ping' = Num(PingOf(call[r].pings))
                    /\ jitter' = Num(JitterOf(call[r].pings))
               ELSE UNCHANGED <<ping, jitter>>
    /\ UNCHANGED <<downloadSpeed, uploadSpeed, ipInfo, isTesting,
                   progress, phase, error, ni, lookup, webcam>>

\* the HEAD request was rejected: caught, no sample
PingFetchRejected(r) ==
    /\ call[r].pc = "pingFetch"
    /\ call' = [call EXCEPT ![r].log = Append(@, -1),
                            ![r].pc = "pingPause"]
    /\ UNCHANGED <<downloadSpeed, uploadSpeed, ping, jitter, ipInfo, isTesting,
                   progress, phase, error, ni, lookup, webcam>>

\* mutant: the loop of runPingTest stops one iteration short
PingPauseElapsed_OneShort(r) ==
    /\ call[r].pc = "pingPause"
    /\ IF call[r].i + 1 < iterations - 1
       THEN /\ call' = [call EXCEPT ![r].i = @ + 1, ![r].pc = "pingFetch"]
            /\ UNCHANGED <<ping, jitter>>
       ELSE /\ call' = [call EXCEPT ![r].i = @ + 1, ![r].pc = "pingDone"]
            /\ IF Len(call[r].pings) > 0
               THEN /\ ping' = Num(PingOf(call[r].pings))
                    /\ jitter' = Num(JitterOf(call[r].pings))
               ELSE UNCHANGED <<ping, jitter>>
    /\ UNCHANGED <<downloadSpeed, uploadSpeed, ipInfo, isTesting,
                   progress, phase, error, ni, lookup, webcam>>

\* mutant: setJitter is forgotten at the end of runPingTest
PingPauseElapsed_PingOnly(r) ==
    /\ call[r].pc = "pingPause"
    /\ IF call[r].i + 1 < iterations
       THEN /\ call' = [call EXCEPT ![r].i = @ + 1, ![r].pc = "pingFetch"]
            /\ UNCHANGED <<ping, jitter>>
       ELSE /\ call' = [call EXCEPT ![r].i = @ + 1, ![r].pc = "pingDone"]
            /\ IF Len(call[r].pings) > 0
               THEN /\ ping' = Num(PingOf(call[r].pings))
                    /\ UNCHANGED jitter
               ELSE UNCHANGED <<ping, jitter>>
    /\ UNCHANGED <<downloadSpeed, uploadSpeed, ipInfo, isTesting,
                   progress, phase, error, ni, lookup, webcam>>

\* the 100 ms pause is over: next iteration, or the results and the return
PingPauseElapsed(r) ==
    /\ call[r].pc = "pingPause"
    /\ IF call[r].i + 1 < iterations
       THEN /\ call' = [call EXCEPT ![r].i = @ + 1, ![r].pc = "pingFetch"]
            /\ UNCHANGED <<ping, jitter>>
       ELSE /\ call' = [call EXCEPT ![r].i = @ + 1, ![r].pc = "pingDone"]
            /\ IF Len(call[r].pings) > 0
               THEN /\ ping' = Num(PingOf(call[r].pings))
                    /\ jitter' = Num(JitterOf(call[r].pings))
               ELSE UNCHANGED <<ping, jitter>>
    /\ UNCHANGED <<downloadSpeed, uploadSpeed, ipInfo, isTesting,
                   progress, phase, error, ni, lookup, webcam>>

----------------------------------------------------------------------------
(* runDownloadTest *)

\* new Promise(resolve => setInterval(..., 100)): the timer is started
StartSimulation(c, pc) ==
    [c EXCEPT !.pc = pc, !.currentProgress = 0, !.interval = TRUE, !.ticks = 0]

\* the locals of runDownloadTest go out of scope when it returns v
ReturnDownload(c, v, path) ==
    [c EXCEPT !.pc = "dlDone", !.ret = v, !.path = path,
              !.currentProgress = 0, !.interval = FALSE,
              !.receivedLength = 0, !.contentLength = Null, !.reads = 0,
              !.header = NoHeader]

\* mutant: the download phase is skipped, phase goes to upload at once
BeginDownload_SkipsPhase(r) ==
    /\ call[r].pc = "pingDone"
    /\ phase' = "upload"
    /\ progress' = Num(0)
    /\ call' = [call EXCEPT ![r].pc = "dlFetch",
                            ![r].left = progress,
                            ![r].pings = <<>>,
                            ![r].log = <<>>,
                            ![r].i = 0,
                            ![r].visited = Append(@, "upload")]
    /\ UNCHANGED <<downloadSpeed, uploadSpeed, ping, jitter, ipInfo, isTesting,
                   error, ni, lookup, webcam>>

\* runTest after `await runPingTest()`, and runDownloadTest up to its fetch
BeginDownload(r) ==
    /\ call[r].pc = "pingDone"
    /\ phase' = "download"
    /\ progress' = Num(0)
    /\ call' = [call EXCEPT ![r].pc = "dlFetch",
                            ![r].left = progress,
                            ![r].pings = <<>>,
                            ![r].log = <<>>,
                            ![r].i = 0,
                            ![r].visited = Append(@, "download")]
    /\ UNCHANGED <<downloadSpeed, uploadSpeed, ping, jitter, ipInfo, isTesting,
                   error, ni, lookup, webcam>>

\* mutant: no .catch on the fetch, the rejection reaches the outer catch
DownloadFetchRejected_Throws(r) ==
    /\ call[r].pc = "dlFetch"
    /\ error' = Str(FailedMessage)
    /\ call' = [call EXCEPT ![r] =
                   [ReturnDownload(@, Num(0), "rejected") EXCEPT !.left = Null]]
    /\ UNCHANGED <<downloadSpeed, uploadSpeed, ping, jitter, ipInfo, isTesting,
                   progress, phase, ni, lookup, webcam>>

\* the GET request was rejected: .catch sets simulated, the simulation starts
DownloadFetchRejected(r) ==
    /\ call[r].pc = "dlFetch"
    /\ call' = [call EXCEPT ![r] =
                   [StartSimulation(@, "dlSim") EXCEPT
                       !.path = "rejected", !.left = Null]]
    /\ UNCHANGED <<downloadSpeed, uploadSpeed, ping, jitter, ipInfo, isTesting,
                   progress, phase, error, ni, lookup, webcam>>

\* mutant: a response without a reader falls back to the simulation
DownloadFetchResolved_NoReaderSimulates(r) ==
    /\ call[r].pc = "dlFetch"
    /\ \E ok \in BOOLEAN, body \in BOOLEAN, header \in Headers:
          IF ~ok
          THEN \* !response.ok: the simulation starts
               /\ call' = [call EXCEPT ![r] =
                              [StartSimulation(@, "dlSim") EXCEPT
                                  !.path = "notOk", !.left = Null]]
               /\ UNCHANGED error
          ELSE IF ~body
          THEN /\ call' = [call EXCEPT ![r] =
                              [StartSimulation(@, "dlSim") EXCEPT
                                  !.path = "noReader", !.left = Null]]
               /\ UNCHANGED error
          ELSE \* the first reader.read() is awaited
               /\ call' = [call EXCEPT ![r].pc = "dlRead",
                                       ![r].left = Null,
                                       ![r].receivedLength = 0,
                                       ![r].contentLength = ContentLengthOf(header),
                                       ![r].header = header,
                                       ![r].path = "stream"]
               /\ UNCHANGED error
    /\ UNCHANGED <<downloadSpeed, uploadSpeed, ping, jitter, ipInfo, isTesting,
                   progress, phase, ni, lookup, webcam>>

\* the GET request resolved with a response
DownloadFetchResolved(r) ==
    /\ call[r].pc = "dlFetch"
    /\ \E ok \in BOOLEAN, body \in BOOLEAN, header \in Headers:
          IF ~ok
          THEN \* !response.ok: the simulation starts
               /\ call' = [call EXCEPT ![r] =
                              [StartSimulation(@, "dlSim") EXCEPT
                                  !.path = "notOk", !.left = Null]]
               /\ UNCHANGED error
          ELSE IF ~body
          THEN \* response.body?.getReader() is undefined: throw, caught
               /\ error' = Str(FailedMessage)
               /\ call' = [call EXCEPT ![r] =
                              [ReturnDownload(@, Num(0), "noReader") EXCEPT
                                  !.left = Null]]
          ELSE \* the first reader.read() is awaited
               /\ call' = [call EXCEPT ![r].pc = "dlRead",
                                       ![r].left = Null,
                                       ![r].receivedLength = 0,
                                       ![r].contentLength = ContentLengthOf(header),
                                       ![r].header = header,
                                       ![r].path = "stream"]
               /\ UNCHANGED error
    /\ UNCHANGED <<downloadSpeed, uploadSpeed, ping, jitter, ipInfo, isTesting,
                   progress, phase, ni, lookup, webcam>>

\* mutant: the read loop also publishes a running download result
DownloadChunkRead_WritesSpeed(r) ==
    /\ call[r].pc = "dlRead"
    /\ call[r].reads < MaxChunks
    /\ \E len \in ChunkLens:
          /\ call' = [call EXCEPT ![r].receivedLength = @ + len,
                                  ![r].reads = @ + 1]
          /\ progress' = StreamProgress(call[r].receivedLength + len,
                                        call[r].contentLength)
    /\ downloadSpeed' = Num(0)
    /\ UNCHANGED <<uploadSpeed, ping, jitter, ipInfo, isTesting,
                   phase, error, ni, lookup, webcam>>

\* reader.read() resolved with a chunk
DownloadChunkRead(r) ==
    /\ call[r].pc = "dlRead"
    /\ call[r].reads < MaxChunks
    /\ \E len \in ChunkLens:
          /\ call' = [call EXCEPT ![r].receivedLength = @ + len,
                                  ![r].reads = @ + 1]
          /\ progress' = StreamProgress(call[r].receivedLength + len,
                                        call[r].contentLength)
    /\ UNCHANGED <<downloadSpeed, uploadSpeed, ping, jitter, ipInfo, isTesting,
                   phase, error, ni, lookup, webcam>>

\* reader.read() resolved with done: the speed is computed and returned
DownloadStreamDone(r) ==
    /\ call[r].pc = "dlRead"
    /\ \E ms \in ElapsedMs:
          call' = [call EXCEPT ![r] =
                      [ReturnDownload(@, SpeedMbps(call[r].receivedLength, ms),
                                      "streamDone") EXCEPT
                          !.bytes = call[r].receivedLength, !.ms = ms]]
    /\ UNCHANGED <<downloadSpeed, uploadSpeed, ping, jitter, ipInfo, isTesting,
                   progress, phase, error, ni, lookup, webcam>>

\* mutant: no try/catch around the reads, runTest is rejected and stops
DownloadReadRejected_Rethrows(r) ==
    /\ call[r].pc = "dlRead"
    /\ call' = [call EXCEPT ![r].pc = "threw", ![r].path = "streamFailed"]
    /\ UNCHANGED <<downloadSpeed, uploadSpeed, ping, jitter, ipInfo, isTesting,
                   progress, phase, error, ni, lookup, webcam>>

\* mutant: a failed read falls back to the simulation, like a failed request
DownloadReadRejected_FallsBack(r) ==
    /\ call[r].pc = "dlRead"
    /\ error' = Str(FailedMessage)
    /\ call' = [call EXCEPT ![r] =
                   [StartSimulation(@, "dlSim") EXCEPT !.path = "streamFailed"]]
    /\ UNCHANGED <<downloadSpeed, uploadSpeed, ping, jitter, ipInfo, isTesting,
                   progress, phase, ni, lookup, webcam>>

\* mutant: the catch of runDownloadTest also resets progress
DownloadReadRejected_ResetsProgress(r) ==
    /\ call[r].pc = "dlRead"
    /\ error' = Str(FailedMessage)
    /\ progress' = Num(0)
    /\ call' = [call EXCEPT ![r] = ReturnDownload(@, Num(0), "streamFailed")]
    /\ UNCHANGED <<downloadSpeed, uploadSpeed, ping, jitter, ipInfo, isTesting,
                   phase, ni, lookup, webcam>>

\* reader.read() was rejected: caught, the error is set and 0 is returned
DownloadReadRejected(r) ==
    /\ call[r].pc = "dlRead"
    /\ error' = Str(FailedMessage)
    /\ call' = [call EXCEPT ![r] = ReturnDownload(@, Num(0), "streamFailed")]
    /\ UNCHANGED <<downloadSpeed, uploadSpeed, ping, jitter, ipInfo, isTesting,
                   progress, phase, ni, lookup, webcam>>

\* mutant: clearInterval is forgotten when the simulation resolves
DownloadTick_KeepsTimer(r) ==
    /\ call[r].pc = "dlSim"
    /\ call[r].interval
    /\ progress' = Num(call[r].currentProgress + 5)
    /\ IF call[r].currentProgress + 5 >= 100
       THEN \E u \in RandomNums:
               call' = [call EXCEPT ![r] =
                           [ReturnDownload(@, Num(RandomInt(u, 50, 150)), @.path)
                               EXCEPT !.ticks = @ + 1, !.interval = TRUE]]
       ELSE call' = [call EXCEPT ![r].currentProgress = @ + 5,
                                 ![r].ticks = @ + 1]
    /\ UNCHANGED <<downloadSpeed, uploadSpeed, ping, jitter, ipInfo, isTesting,
                   phase, error, ni, lookup, webcam>>

\* one tick of the download simulation's interval timer
DownloadTick(r) ==
    /\ call[r].pc = "dlSim"
    /\ call[r].interval
    /\ progress' = Num(call[r].currentProgress + 5)
    /\ IF call[r].currentProgress + 5 >= 100
       THEN \E u \in RandomNums:
               call' = [call EXCEPT ![r] =
                           [ReturnDownload(@, Num(RandomInt(u, 50, 150)), @.path)
                               EXCEPT !.ticks = @ + 1]]
       ELSE call' = [call EXCEPT ![r].currentProgress = @ + 5,
                                 ![r].ticks = @ + 1]
    /\ UNCHANGED <<downloadSpeed, uploadSpeed, ping, jitter, ipInfo, isTesting,
                   phase, error, ni, lookup, webcam>>

----------------------------------------------------------------------------
(* runUploadTest and the end of runTest *)

\* mutant: setProgress(0) is forgotten at the start of the upload phase
BeginUpload_KeepsProgress(r) ==
    /\ call[r].pc = "dlDone"
    /\ downloadSpeed' = call[r].ret
    /\ phase' = "upload"
    /\ call' = [call EXCEPT ![r] =
                   [StartSimulation(@, "ulSim") EXCEPT
                       !.ret = Null, !.left = progress,
                       !.bytes = 0, !.ms = -1,
                       !.visited = Append(@, "upload")]]
    /\ UNCHANGED <<uploadSpeed, ping, jitter, ipInfo, isTesting, error, ni,
                   lookup, webcam,
                   progress>>

\* mutant: setDownloadSpeed(dlSpeed) is forgotten
BeginUpload_NoResult(r) ==
    /\ call[r].pc = "dlDone"
    /\ phase' = "upload"
    /\ progress' = Num(0)
    /\ call' = [call EXCEPT ![r] =
                   [StartSimulation(@, "ulSim") EXCEPT
                       !.ret = Null, !.left = progress,
                       !.bytes = 0, !.ms = -1,
                       !.visited = Append(@, "upload")]]
    /\ UNCHANGED <<downloadSpeed, uploadSpeed, ping, jitter, ipInfo, isTesting,
                   error, ni, lookup, webcam>>

\* runTest after `await runDownloadTest()`, and runUploadTest up to its promise
BeginUpload(r) ==
    /\ call[r].pc = "dlDone"
    /\ downloadSpeed' = call[r].ret
    /\ phase' = "upload"
    /\ progress' = Num(0)
    /\ call' = [call EXCEPT ![r] =
                   [StartSimulation(@, "ulSim") EXCEPT
                       !.ret = Null, !.left = progress,
                       !.bytes = 0, !.ms = -1,
                       !.visited = Append(@, "upload")]]
    /\ UNCHANGED <<uploadSpeed, ping, jitter, ipInfo, isTesting, error, ni,
                   lookup, webcam>>

\* mutant: the simulation resolves when currentProgress exceeds 100
UploadTick_Late(r) ==
    /\ call[r].pc = "ulSim"
    /\ call[r].interval
    /\ progress' = Num(call[r].currentProgress + 5)
    /\ IF call[r].currentProgress + 5 > 100
       THEN \E u \in RandomNums:
               call' = [call EXCEPT ![r].pc = "ulDone",
                                    ![r].left = Null,
                                    ![r].ret = Num(RandomInt(u, 10, 50)),
                                    ![r].currentProgress = 0,
                                    ![r].ticks = @ + 1,
                                    ![r].interval = FALSE]
       ELSE call' = [call EXCEPT ![r].currentProgress = @ + 5,
                                 ![r].ticks = @ + 1,
                                 ![r].left = Null]
    /\ UNCHANGED <<downloadSpeed, uploadSpeed, ping, jitter, ipInfo, isTesting,
                   phase, error, ni, lookup, webcam>>

\* one tick of the upload simulation's interval timer
UploadTick(r) ==
    /\ call[r].pc = "ulSim"
    /\ call[r].interval
    /\ progress' = Num(call[r].currentProgress + 5)
    /\ IF call[r].currentProgress + 5 >= 100
       THEN \E u \in RandomNums:
               call' = [call EXCEPT ![r].pc = "ulDone",
                                    ![r].left = Null,
                                    ![r].ret = Num(RandomInt(u, 10, 50)),
                                    ![r].currentProgress = 0,
                                    ![r].ticks = @ + 1,
                                    ![r].interval = FALSE]
       ELSE call' = [call EXCEPT ![r].currentProgress = @ + 5,
                                 ![r].ticks = @ + 1,
                                 ![r].left = Null]
    /\ UNCHANGED <<downloadSpeed, uploadSpeed, ping, jitter, ipInfo, isTesting,
                   phase, error, ni, lookup, webcam>>

\* mutant: setUploadSpeed(ulSpeed) is forgotten
FinishTest_DropsResult(r) ==
    /\ call[r].pc = "ulDone"
    /\ phase' = "complete"
    /\ isTesting' = FALSE
    /\ call' = [call EXCEPT ![r].pc = "returned",
                            ![r].ret = Null,
                            ![r].visited = Append(@, "complete")]
    /\ UNCHANGED <<downloadSpeed, uploadSpeed, ping, jitter, ipInfo, progress,
                   error, ni, lookup, webcam>>

\* mutant: setIsTesting(false) is forgotten at the end of runTest
FinishTest_KeepsTesting(r) ==
    /\ call[r].pc = "ulDone"
    /\ uploadSpeed' = call[r].ret
    /\ phase' = "complete"
    /\ call' = [call EXCEPT ![r].pc = "returned",
                            ![r].ret = Null,
                            ![r].visited = Append(@, "complete")]
    /\ UNCHANGED <<isTesting, downloadSpeed, ping, jitter, ipInfo, progress,
                   error, ni, lookup, webcam>>

\* mutant: runTest resets progress when it sets phase to complete
FinishTest_ResetsProgress(r) ==
    /\ call[r].pc = "ulDone"
    /\ uploadSpeed' = call[r].ret
    /\ phase' = "complete"
    /\ isTesting' = FALSE
    /\ progress' = Num(0)
    /\ call' = [call EXCEPT ![r].pc = "returned",
                            ![r].ret = Null,
                            ![r].visited = Append(@, "complete")]
    /\ UNCHANGED <<downloadSpeed, ping, jitter, ipInfo, error, ni, lookup,
                   webcam>>

\* runTest after `await runUploadTest()`
FinishTest(r) ==
    /\ call[r].pc = "ulDone"
    /\ uploadSpeed' = call[r].ret
    /\ phase' = "complete"
    /\ isTesting' = FALSE
    /\ call' = [call EXCEPT ![r].pc = "returned",
                            ![r].ret = Null,
                            ![r].visited = Append(@, "complete")]
    /\ UNCHANGED <<downloadSpeed, ping, jitter, ipInfo, progress, error, ni,
                   lookup, webcam>>

----------------------------------------------------------------------------
(* fetchNetworkInfo, called once by the mount effect *)

\* the parsed body: success, connection ("absent": no connection object,
\* "undefined": a connection object without isp, else connection.isp) and
\* isp ("undefined": no isp, else the isp)
NetworkData ==
    [success : BOOLEAN,
     ip : {"203.0.113.7"},
     connection : {"absent", "undefined", "AcmeNet"},
     isp : {"undefined", "TopNet"}]

\* data.connection.isp || data.isp || 'Unknown ISP' (connection is an object)
IspOf(data) ==
    IF data.connection # "undefined" THEN data.connection
    ELSE IF data.isp # "undefined" THEN data.isp
    ELSE "Unknown ISP"

NetworkInfoFetchResolved ==
    /\ ni = "fetch"
    /\ ni' = "json"
    /\ UNCHANGED <<downloadSpeed, uploadSpeed, ping, jitter, ipInfo, isTesting,
                   progress, phase, error, call, lookup, webcam>>

\* mutant: the catch of fetchNetworkInfo reports the failure with setError
NetworkInfoFetchRejected_SetsError ==
    /\ ni = "fetch"
    /\ ni' = "done"
    /\ error' = Str("Failed to fetch IP info")
    /\ UNCHANGED <<downloadSpeed, uploadSpeed, ping, jitter, ipInfo, isTesting,
                   progress, phase, call, lookup, webcam>>

NetworkInfoFetchRejected ==
    /\ ni = "fetch"
    /\ ni' = "done"
    /\ UNCHANGED <<downloadSpeed, uploadSpeed, ping, jitter, ipInfo, isTesting,
                   progress, phase, error, call, lookup, webcam>>

\* response.json() was rejected: the body is no JSON
NetworkInfoJsonRejected ==
    /\ ni = "json"
    /\ ni' = "done"
    /\ UNCHANGED <<downloadSpeed, uploadSpeed, ping, jitter, ipInfo, isTesting,
                   progress, phase, error, call, lookup, webcam>>

\* if (data.success) setIpInfo({ip, isp})
StoreInfo(data) ==
    IF data.success /\ data.connection # "absent"
    THEN ipInfo' = Info(data.ip, IspOf(data))
    ELSE \* success is false, or data.connection.isp throws a TypeError
         UNCHANGED ipInfo

\* response.json() resolved with data
NetworkInfoJsonResolved ==
    /\ ni = "json"
    /\ ni' = "done"
    /\ \E data \in NetworkData: StoreInfo(data)
    /\ UNCHANGED <<downloadSpeed, uploadSpeed, ping, jitter, isTesting,
                   progress, phase, error, call, lookup, webcam>>

\* The same four steps, recording in `lookup` the status of the response
\* (which the code never reads), how the lookup ended and the parsed body.
LookupFetchResolved ==
    /\ ni = "fetch"
    /\ ni' = "json"
    /\ \E ok \in BOOLEAN: lookup' = [lookup EXCEPT !.ok = ok]
    /\ UNCHANGED <<downloadSpeed, uploadSpeed, ping, jitter, ipInfo, isTesting,
                   progress, phase, error, call, webcam>>

LookupFetchRejected ==
    /\ ni = "fetch"
    /\ ni' = "done"
    /\ lookup' = [lookup EXCEPT !.outcome = "rejected"]
    /\ UNCHANGED <<downloadSpeed, uploadSpeed, ping, jitter, ipInfo, isTesting,
                   progress, phase, error, call, webcam>>

LookupJsonRejected ==
    /\ ni = "json"
    /\ ni' = "done"
    /\ lookup' = [lookup EXCEPT !.outcome = "unparseable"]
    /\ UNCHANGED <<downloadSpeed, uploadSpeed, ping, jitter, ipInfo, isTesting,
                   progress, phase, error, call, webcam>>

LookupJsonResolved ==
    /\ ni = "json"
    /\ ni' = "done"
    /\ \E data \in NetworkData:
          /\ StoreInfo(data)
          /\ lookup' = [lookup EXCEPT !.outcome = "parsed", !.data = data]
    /\ UNCHANGED <<downloadSpeed, uploadSpeed, ping, jitter, isTesting,
                   progress, phase, error, call, webcam>>

----------------------------------------------------------------------------
(* The specification: runTest is invoked by the start button of Controls,   *)
(* which is rendered only while isTesting is false.                         *)

Free(r) == call[r].pc \in {"idle", "returned"}

\* mutant: the start button is rendered and enabled while a test is running
ClickStart_AlwaysEnabled ==
    \E r \in Inv:
       /\ Free(r)
       /\ \A q \in Inv: Free(q) => r <= q
       /\ runTest(r)

ClickStart ==
    /\ ~isTesting
    /\ \E r \in Inv:
          /\ Free(r)
          /\ \A q \in Inv: Free(q) => r <= q
          /\ runTest(r)

RunStep(r) ==
    \/ PingFetchResolved(r)
    \/ PingFetchRejected(r)
    \/ PingPauseElapsed(r)
    \/ BeginDownload(r)
    \/ DownloadFetchRejected(r)
    \/ DownloadFetchResolved(r)
    \/ DownloadChunkRead(r)
    \/ DownloadStreamDone(r)
    \/ DownloadReadRejected(r)
    \/ DownloadTick(r)
    \/ BeginUpload(r)
    \/ UploadTick(r)
    \/ FinishTest(r)

NetworkInfoStep ==
    \/ NetworkInfoFetchResolved
    \/ NetworkInfoFetchRejected
    \/ NetworkInfoJsonRejected
    \/ NetworkInfoJsonResolved

Next ==
    \/ ClickStart
    \/ \E r \in Inv: RunStep(r)
    \/ NetworkInfoStep

Spec == Init /\ [][Next]_vars

\* runPingTest alone, its samples drawn from SampleTicks and ExampleSamples
PingNext ==
    \/ ClickStart
    \/ \E r \in Inv:
          \/ PingFetchResolvedIn(r, SampleTicks \cup Range(ExampleSamples))
          \/ PingFetchRejected(r)
          \/ PingPauseElapsed(r)

PingSpec == Init /\ [][PingNext]_vars

\* runPingTest alone, the status of each response recorded
ProbeNext ==
    \/ ClickStart
    \/ \E r \in Inv:
          \/ ProbeResolved(r)
          \/ PingFetchRejected(r)
          \/ PingPauseElapsed(r)

ProbeSpec == Init /\ [][ProbeNext]_vars

\* the lookup, recorded, beside the ping phase of a run
LookupNext ==
    \/ ClickStart
    \/ \E r \in Inv:
          \/ PingFetchResolved(r)
          \/ PingFetchRejected(r)
          \/ PingPauseElapsed(r)
    \/ LookupFetchResolved
    \/ LookupFetchRejected
    \/ LookupJsonRejected
    \/ LookupJsonResolved

LookupSpec == Init /\ [][LookupNext]_vars

\* every pending request, body read and timer of a run eventually resolves,
\* rejects or fires; the user need never click, the lookup need never answer
\* runTest invoked while one earlier invocation is between its start and its
\* return: the function has no guard on isTesting
DirectStart ==
    /\ Cardinality({q \in Inv: ~Free(q)}) = 1
    /\ \E r \in Inv:
          /\ Free(r)
          /\ \A q \in Inv: Free(q) => r <= q
          /\ runTest(r)

\* the steps of a run whose requests are all rejected (probes fail, the
\* download and the upload are simulated)
OfflineStep(r) ==
    \/ PingFetchRejected(r)
    \/ PingPauseElapsed(r)
    \/ BeginDownload(r)
    \/ DownloadFetchRejected(r)
    \/ DownloadTick(r)
    \/ BeginUpload(r)
    \/ UploadTick(r)
    \/ FinishTest(r)

\* runs that may overlap: runTest is also invoked directly
ReentrantNext ==
    \/ ClickStart
    \/ DirectStart
    \/ \E r \in Inv: OfflineStep(r)

ReentrantSpec == Init /\ [][ReentrantNext]_vars

\* the session of the speed test, which WebcamTest does not touch
session ==
    <<downloadSpeed, uploadSpeed, ping, jitter, ipInfo, isTesting, progress,
      phase, error, ni, call, lookup>>

CameraMessage == "Could not access camera. Please check permissions."

\* startCamera up to `await navigator.mediaDevices.getUserMedia(constraints)`
startCamera ==
    /\ webcam.starts < MaxStarts
    /\ webcam' = [webcam EXCEPT !.pending = @ + 1,
                                !.starts = @ + 1,
                                !.last = "start"]
    /\ UNCHANGED session

\* getUserMedia resolved with a new stream: the video element is mounted, so
\* the stream is attached, over whatever srcObject held
GetUserMediaResolved ==
    /\ webcam.pending > 0
    /\ webcam' = [webcam EXCEPT !.pending = @ - 1,
                                !.streams = @ + 1,
                                !.live = @ \cup {webcam.streams + 1},
                                !.srcObject = webcam.streams + 1,
                                !.isActive = TRUE,
                                !.error = NullString,
                                !.last = "resolved"]
    /\ UNCHANGED session

\* getUserMedia was rejected: caught, the error is set
GetUserMediaRejected ==
    /\ webcam.pending > 0
    /\ webcam' = [webcam EXCEPT !.pending = @ - 1,
                                !.error = Str(CameraMessage),
                                !.last = "rejected"]
    /\ UNCHANGED session

\* stopCamera: the tracks of the attached stream are stopped, if there is one
stopCamera ==
    /\ IF webcam.srcObject # 0
       THEN webcam' = [webcam EXCEPT !.live = @ \ {webcam.srcObject},
                                    !.srcObject = 0,
                                    !.isActive = FALSE,
                                    !.last = "stop"]
       ELSE webcam' = [webcam EXCEPT !.last = "stop"]
    /\ UNCHANGED session

\* Controls renders the start button while isActive is false, and the stop
\* button while it is true
ClickStartCamera == ~webcam.isActive /\ startCamera

ClickStopCamera == webcam.isActive /\ stopCamera

CameraNext ==
    \/ ClickStartCamera
    \/ ClickStopCamera
    \/ GetUserMediaResolved
    \/ GetUserMediaRejected

CameraSpec == Init /\ [][CameraNext]_vars

LiveSpec == Spec /\ \A r \in Inv: WF_vars(RunStep(r))

----------------------------------------------------------------------------
(* Properties *)

PhaseOrder == <<"ping", "download", "upload", "complete">>

IsPrefix(s, t) == Len(s) <= Len(t) /\ \A k \in 1..Len(s): s[k] = t[k]

IntegerIn(v, low, high) == IsInteger(v) /\ low <= v.n /\ v.n <= high

\* the phase changes a run may make, in order
PhaseChanges ==
    {<<"idle", "ping">>, <<"complete", "ping">>, <<"ping", "download">>,
     <<"download", "upload">>, <<"upload", "complete">>}

\* C1: with runs started one at a time, the phases a run sets are a prefix of
\* ping, download, upload, complete and the whole of it once the run has
\* returned, phase is the last of them, the run was entered from idle or from
\* complete, and every change of phase is the next one of that order.
C1_PhaseSequence ==
    /\ [](\A r \in Inv: call[r].pc # "idle" =>
            /\ call[r].visited # <<>>
            /\ IsPrefix(call[r].visited, PhaseOrder)
            /\ phase = call[r].visited[Len(call[r].visited)]
            /\ call[r].from \in {"idle", "complete"}
            /\ (call[r].pc = "returned" <=> call[r].visited = PhaseOrder))
    /\ [][phase' # phase => <<phase, phase'>> \in PhaseChanges]_vars

\* a second run, entered from complete, has gone through all four phases
C1_Witness ==
    /\ call[1].pc = "returned"
    /\ call[1].from = "complete"
    /\ call[1].visited = PhaseOrder
    /\ phase = "complete"

\* C2: once runTest is invoked (isTesting is true), phase eventually becomes
\* complete with isTesting false again, whatever fails on the way.
C2_EventuallyComplete == isTesting ~> (phase = "complete" /\ ~isTesting)

\* a run with failed latency probes and a failed stream has completed
C2_Witness ==
    /\ phase = "complete"
    /\ ~isTesting
    /\ call[1].nOk = 0
    /\ call[1].path = "streamFailed"
    /\ ni = "done"
    /\ ~ipInfo.set

\* C3: when a body read is rejected after an ok response, the error message is
\* set and stays, 0 is what runDownloadTest returns and what downloadSpeed
\* holds from the upload phase on, the run has gone through upload when it
\* returns, with uploadSpeed an integer in [10, 50]; and the run does reach
\* complete.
C3_StreamFailure ==
    /\ [](\A r \in Inv: call[r].path = "streamFailed" =>
            /\ error = Str(FailedMessage)
            /\ call[r].pc \in {"dlDone", "ulSim", "ulDone", "returned"}
            /\ (call[r].pc = "dlDone" => call[r].ret = Num(0))
            /\ (call[r].pc # "dlDone" => downloadSpeed = Num(0))
            /\ (call[r].pc = "returned" =>
                    /\ phase = "complete"
                    /\ call[r].visited = PhaseOrder
                    /\ IntegerIn(uploadSpeed, 10, 50)))
    /\ \A r \in Inv:
          (call[r].path = "streamFailed")
             ~> (call[r].path = "streamFailed" /\ phase = "complete")

\* the run whose stream failed is complete
C3_Witness ==
    /\ call[1].path = "streamFailed"
    /\ call[1].pc = "returned"
    /\ phase = "complete"
    /\ downloadSpeed = Num(0)
    /\ error = Str(FailedMessage)

\* C4: when the download request is rejected or its response is not ok, error
\* is null for the rest of the run, the simulation has brought progress to 100
\* when runDownloadTest returns, and the value it returns, which downloadSpeed
\* holds from the upload phase on, is an integer in [50, 150].
C4_InitialFailure ==
    \A r \in Inv: call[r].path \in {"rejected", "notOk"} =>
        /\ error = NullString
        /\ (call[r].pc = "dlDone" =>
                IntegerIn(call[r].ret, 50, 150) /\ progress = Num(100))
        /\ (call[r].pc \in {"ulSim", "ulDone", "returned"} =>
                IntegerIn(downloadSpeed, 50, 150))

\* a run whose download response was not ok has completed with the top value
C4_Witness ==
    /\ call[1].path = "notOk"
    /\ call[1].pc = "returned"
    /\ downloadSpeed = Num(150)
    /\ error = NullString

\* C5: in the complete state uploadSpeed is an integer in [10, 50], and while
\* phase is upload the run waits for its simulation timer only: no request
\* and no body read of the run is pending.
C5_UploadRange ==
    /\ phase = "complete" => IntegerIn(uploadSpeed, 10, 50)
    /\ \A r \in Inv:
          (phase = "upload" /\ ~Free(r)) => call[r].pc \in {"ulSim", "ulDone"}

\* complete after every latency probe and the stream failed, with the top value
C5_Witness ==
    /\ phase = "complete"
    /\ uploadSpeed = Num(50)
    /\ call[1].nOk = 0
    /\ call[1].path = "streamFailed"

\* C6: every step that changes phase to download or to upload leaves
\* progress = 0.
C6_ProgressReset ==
    [][(phase' # phase /\ phase' \in {"download", "upload"})
          => progress' = Num(0)]_vars

\* the upload phase has just begun after a failed stream left progress
\* strictly between 0 and 100
C6_Witness ==
    /\ phase = "upload"
    /\ progress = Num(0)
    /\ call[1].pc = "ulSim"
    /\ call[1].path = "streamFailed"
    /\ IsNumber(call[1].left)
    /\ 0 < call[1].left.n
    /\ call[1].left # Num(100)

\* p is the integer nearest to a / b (b > 0), the upper one of two
IsRoundOf(p, a, b) == 2 * b * p - b <= 2 * a /\ 2 * a < 2 * b * p + b

SetMin(S) == CHOOSE m \in S : \A x \in S : m <= x

RECURSIVE SumTo(_, _)
SumTo(f, n) == IF n = 0 THEN 0 ELSE f[n] + SumTo(f, n - 1)

\* n * n times the mean absolute deviation of the samples s, n = Len(s)
AbsDevTotal(s) ==
    LET n == Len(s)
        total == SumTo(s, n)
    IN SumTo([k \in 1..n |-> Abs(n * s[k] - total)], n)

\* ping and jitter are round(min) and round(mean absolute deviation) of the
\* samples s (in ticks), in milliseconds
ResultsOf(s) ==
    /\ IsInteger(ping)
    /\ IsInteger(jitter)
    /\ IsRoundOf(ping.n, SetMin(Range(s)), Res)
    /\ IsRoundOf(jitter.n, AbsDevTotal(s), Len(s) * Len(s) * Res)

\* the samples of the probes whose request resolved
OkSamples(log) == SelectSeq(log, LAMBDA t : t >= 0)

\* C7: when runPingTest returns after 5 probes, pings holds exactly the samples
\* of the probes that resolved; with 1 to 4 of them ping and jitter are
\* computed from these; with none, ping and jitter are null, and they are
\* still null in every later state of the run, the complete state included.
C7_SuccessfulSubset ==
    \A r \in Inv:
        /\ call[r].pc = "pingDone" =>
              LET ok == OkSamples(call[r].log) IN
                /\ Len(call[r].log) = iterations
                /\ call[r].pings = ok
                /\ call[r].nOk = Len(ok)
                /\ (Len(ok) \in 1..4 => ResultsOf(ok))
                /\ (Len(ok) = 0 => ping = Null /\ jitter = Null)
        /\ (call[r].nOk = 0 /\ call[r].pc \notin {"idle", "pingFetch", "pingPause"})
              => ping = Null /\ jitter = Null

\* two of the five probes resolved (0.5 ms and 3.5 ms)
C7_Witness ==
    /\ call[1].pc = "pingDone"
    /\ call[1].log = <<-1, 1, -1, 7, -1>>
    /\ ping = Num(1)
    /\ jitter = Num(2)

\* C8 as claimed: for the non-empty list of samples runPingTest has collected,
\* ping is round(min) and jitter is round(mean absolute deviation); for the
\* samples 40, 42, 38, 41, 200 this gives ping 38 and jitter 56.
C8_Original ==
    \A r \in Inv:
        (call[r].pc = "pingDone" /\ call[r].pings # <<>>) =>
            /\ ResultsOf(call[r].pings)
            /\ (call[r].pings = ExampleSamples =>
                    ping = Num(38) /\ jitter = Num(56))

\* C8 as amended: for the non-empty list of samples runPingTest has collected,
\* ping is round(min) and jitter is round(mean absolute deviation); for the
\* samples 40, 42, 38, 41, 200 this gives ping 38 and jitter 51 (the mean is
\* 72.2 and the mean absolute deviation 255.6 / 5 = 51.12).
C8_Amended ==
    \A r \in Inv:
        (call[r].pc = "pingDone" /\ call[r].pings # <<>>) =>
            /\ ResultsOf(call[r].pings)
            /\ (call[r].pings = ExampleSamples =>
                    ping = Num(38) /\ jitter = Num(51))

\* runPingTest has returned with the samples 40, 42, 38, 41, 200
C8_Witness ==
    /\ call[1].pc = "pingDone"
    /\ call[1].pings = ExampleSamples
    /\ ping = Num(38)
    /\ jitter = Num(51)

\* the result fields are null before their phase: all of them in idle, ping
\* and jitter while the probes run, downloadSpeed up to the end of the
\* download phase, uploadSpeed up to the end of the upload phase
NullBefore ==
    /\ phase = "idle" =>
          ping = Null /\ jitter = Null /\ downloadSpeed = Null /\ uploadSpeed = Null
    /\ \A r \in Inv: call[r].pc \in {"pingFetch", "pingPause"} =>
          ping = Null /\ jitter = Null
    /\ phase \in {"ping", "download"} => downloadSpeed = Null
    /\ phase \in {"ping", "download", "upload"} => uploadSpeed = Null

\* C9 as claimed: every result field is null before its phase and non-null
\* after it, ping and jitter included.
C9_Original ==
    /\ NullBefore
    /\ phase \in {"download", "upload", "complete"} =>
          ping # Null /\ jitter # Null
    /\ phase \in {"upload", "complete"} => downloadSpeed # Null
    /\ phase = "complete" => uploadSpeed # Null

\* C9 as amended: every result field is null before its phase; after the
\* download phase downloadSpeed is non-null and after the upload phase
\* uploadSpeed is non-null; after the ping phase ping and jitter are non-null
\* exactly when at least one latency probe resolved, and null when all five
\* failed.
C9_Amended ==
    /\ NullBefore
    /\ \A r \in Inv:
          (~Free(r) \/ call[r].pc = "returned")
             /\ phase \in {"download", "upload", "complete"}
          => /\ (ping # Null <=> call[r].nOk > 0)
             /\ (jitter # Null <=> call[r].nOk > 0)
    /\ phase \in {"upload", "complete"} => downloadSpeed # Null
    /\ phase = "complete" => uploadSpeed # Null

\* a complete run in which every latency probe failed
C9_Witness ==
    /\ phase = "complete"
    /\ call[1].nOk = 0
    /\ ping = Null
    /\ jitter = Null
    /\ downloadSpeed # Null
    /\ uploadSpeed # Null

\* C10: error is non-null only when, in the current run, the download
\* response was ok and its body could not be read (a read was rejected, or
\* the response had no reader), and then it is the failure message; failed
\* latency probes, a rejected or not-ok download request and a failed lookup
\* leave it null.
C10_ErrorOnlyFromBody ==
    error # NullString =>
        /\ error = Str(FailedMessage)
        /\ \E r \in Inv: call[r].path \in {"streamFailed", "noReader"}

\* the error is set by the failed stream of a run whose latency probes all
\* failed and whose lookup failed
C10_Witness ==
    /\ error # NullString
    /\ call[1].path = "streamFailed"
    /\ call[1].nOk = 0
    /\ ni = "done"
    /\ ~ipInfo.set
    /\ isTesting

\* a latency probe of the run was rejected
ProbeFailed(r) ==
    IF call[r].pc \in {"pingFetch", "pingPause", "pingDone"}
    THEN -1 \in Range(call[r].log)
    ELSE call[r].pc # "idle" /\ call[r].nOk < iterations

\* the download of the run failed: at the request, or at the body
DownloadFailed(r) ==
    call[r].path \in {"rejected", "notOk", "noReader", "streamFailed"}

\* C11 as claimed (its part on error): once a latency probe or the download
\* of a run has failed, the failure is recorded in error.
C11_Original ==
    \A r \in Inv: (ProbeFailed(r) \/ DownloadFailed(r)) => error # NullString

\* C11 as amended: a failure inside a probe is caught and the controller does
\* not abort: after a failed latency probe the download phase is still
\* entered, and after a failed download the upload phase; but only a failure
\* to read the body of an ok download response is recorded in error: a
\* rejected latency probe, a rejected download request and a not-ok download
\* response leave error null.
C11_Amended ==
    /\ [](\A r \in Inv: call[r].pc # "idle" =>
            (error # NullString <=> call[r].path \in {"streamFailed", "noReader"}))
    /\ (\E r \in Inv: call[r].pc \in {"pingFetch", "pingPause"} /\ ProbeFailed(r))
          ~> (phase = "download")
    /\ (phase = "download" /\ \E r \in Inv: DownloadFailed(r))
          ~> (phase = "upload")

\* the upload phase is entered after five failed probes and a rejected
\* download request, with error still null
C11_Witness ==
    /\ phase = "upload"
    /\ call[1].nOk = 0
    /\ call[1].path = "rejected"
    /\ error = NullString

\* the content length the claim gives for a header
ClaimedLength(header) ==
    IF header.kind = "digits" THEN Num(header.value) ELSE Num(5000000)

\* C12 as claimed: while the body is streamed, after each chunk progress is
\* min(100, received / contentLength * 100), where contentLength is the
\* numeric value of the Content-Length header, and 5,000,000 both when the
\* header is absent and when it is not numeric.
C12_Claim ==
    \A r \in Inv:
       (call[r].pc = "dlRead" /\ call[r].reads > 0) =>
          progress = StreamProgress(call[r].receivedLength,
                                    ClaimedLength(call[r].header))

\* bytes * 8 / (ms / 1000) / 1,048,576 as a fraction (ms > 0)
MbpsOf(bytes, ms) == Frac(bytes * 125, ms * 16384)

\* C13: when the stream completes, the download result is
\* round(received * 8 / elapsedSeconds / 1,048,576): the routine returns that
\* number (Infinity, or NaN for no bytes, when no time has elapsed) and
\* runTest stores what it returned as the download result; 10,000,000 bytes
\* in 4.0 s give 19.
C13_StreamSpeed ==
    /\ [](\A r \in Inv:
            (call[r].pc = "dlDone" /\ call[r].path = "streamDone") =>
               /\ call[r].ms > 0 =>
                     /\ IsInteger(call[r].ret)
                     /\ IsRoundOf(call[r].ret.n, MbpsOf(call[r].bytes, call[r].ms).n,
                                  MbpsOf(call[r].bytes, call[r].ms).d)
               /\ call[r].ms = 0 =>
                     call[r].ret = (IF call[r].bytes = 0 THEN NaN ELSE Infinity)
               /\ (call[r].bytes = 10000000 /\ call[r].ms = 4000) =>
                     call[r].ret = Num(19))
    /\ [][\A r \in Inv:
            (call[r].pc = "dlDone" /\ call'[r].pc # "dlDone") =>
               downloadSpeed' = call[r].ret]_vars

\* a stream of 10,000,000 bytes has completed in 4.0 s, and 19 is returned
C13_Witness ==
    /\ call[1].pc = "dlDone"
    /\ call[1].path = "streamDone"
    /\ call[1].bytes = 10000000
    /\ call[1].ms = 4000
    /\ call[1].ret = Num(19)

\* invocation r of runTest starts in this step
Started(r) == Free(r) /\ call'[r].pc \notin {"idle", "returned"}

\* C14: when a run starts, in the first state with phase = ping the four
\* results and error are null and progress is 0; and during a run a result is
\* never visible before the run's own phase produced it, and error never
\* before the run's own download failed at the body: nothing of an earlier
\* run is visible.
C14_ResultsCleared ==
    /\ [][\A r \in Inv: Started(r) =>
             /\ phase' = "ping"
             /\ ping' = Null /\ jitter' = Null
             /\ downloadSpeed' = Null /\ uploadSpeed' = Null
             /\ error' = NullString
             /\ progress' = Num(0)]_vars
    /\ [](\A r \in Inv: ~Free(r) =>
             /\ NullBefore
             /\ error # NullString =>
                   call[r].path \in {"streamFailed", "noReader"})

\* a run started after a complete one is in its first state
C14_Witness ==
    /\ call[1].from = "complete"
    /\ call[1].pc = "pingFetch"
    /\ call[1].i = 0
    /\ phase = "ping"
    /\ ping = Null /\ jitter = Null /\ downloadSpeed = Null /\ uploadSpeed = Null
    /\ error = NullString
    /\ progress = Num(0)

\* C17: the lookup is requested once, by the mount effect, and never by
\* runTest: the count of requests stays 1 and a settled lookup is never in
\* flight again; networkInfo is written only by the step that parses the
\* lookup's body, never by a step of a run; and the steps of the lookup
\* change no other field and no position of a run, at whatever time they
\* happen.
C17_LookupOnce ==
    /\ [](lookup.requests = 1)
    /\ [][ni' # ni => /\ <<ni, ni'>> \in {<<"fetch", "json">>, <<"fetch", "done">>,
                                           <<"json", "done">>}
                      /\ UNCHANGED <<downloadSpeed, uploadSpeed, ping, jitter,
                                     isTesting, progress, phase, error, call>>]_vars
    /\ [][ipInfo' # ipInfo => ni = "json" /\ ni' = "done"]_vars
    /\ [][call' # call => UNCHANGED <<ipInfo, ni, lookup>>]_vars

\* the lookup has stored networkInfo and a second run is complete
C17_Witness ==
    /\ phase = "complete"
    /\ call[1].from = "complete"
    /\ ipInfo.set
    /\ ni = "done"
    /\ lookup.requests = 1

\* C18: no phase begins before the awaited operation of the phase before it
\* has resolved: download is entered from the return of runPingTest, after
\* five settled probes and five pauses; upload from the return of
\* runDownloadTest, whose value becomes the download result; complete from
\* the resolution of the upload simulation, whose value becomes the upload
\* result and whose last tick set progress to 100.
C18_AwaitedBeforeNext ==
    [][phase' # phase =>
         /\ phase' = "download" =>
               \E r \in Inv: /\ call[r].pc = "pingDone"
                             /\ call[r].i = iterations
                             /\ Len(call[r].log) = iterations
         /\ phase' = "upload" =>
               \E r \in Inv: /\ call[r].pc = "dlDone"
                             /\ ~call[r].interval
                             /\ call[r].ret # Null
                             /\ call[r].path \notin {"none", "stream"}
                             /\ downloadSpeed' = call[r].ret
         /\ phase' = "complete" =>
               \E r \in Inv: /\ call[r].pc = "ulDone"
                             /\ ~call[r].interval
                             /\ call[r].ret # Null
                             /\ progress = Num(100)
                             /\ uploadSpeed' = call[r].ret]_vars

\* the upload phase has been entered after five resolved probes and a
\* completed stream
C18_Witness ==
    /\ phase = "upload"
    /\ call[1].pc = "ulSim"
    /\ call[1].nOk = iterations
    /\ call[1].path = "streamDone"
    /\ downloadSpeed # Null

\* C20: runTest being invoked only by the start button, which exists only
\* while isTesting is false, at most one run is active at a time, isTesting
\* tells whether one is, and no run starts while another is between its
\* start and its setting phase to complete.
C20_OneRun ==
    /\ [](/\ Cardinality({r \in Inv: ~Free(r)}) <= 1
          /\ isTesting <=> \E r \in Inv: ~Free(r))
    /\ [][\A r \in Inv: Started(r) =>
             /\ ~isTesting
             /\ phase \in {"idle", "complete"}
             /\ \A q \in Inv: Free(q)]_vars

\* a second run, started by the button after the first completed, is active
C20_Witness ==
    /\ isTesting
    /\ call[1].from = "complete"
    /\ call[1].pc = "dlSim"
    /\ \A q \in Inv: q # 1 => Free(q)

\* the isp the claim gives for a parsed body: connection.isp, else the
\* top-level isp, else "Unknown ISP"
ClaimedIsp(data) ==
    IF data.connection \notin {"absent", "undefined"} THEN data.connection
    ELSE IF data.isp # "undefined" THEN data.isp
    ELSE "Unknown ISP"

\* C15 as claimed: once the lookup's body is parsed with success = true,
\* networkInfo is {ip, isp} with isp = connection.isp, else the top-level isp,
\* else "Unknown ISP", for every shape of the body, one without a connection
\* object included.
C15_Claim ==
    (lookup.outcome = "parsed" /\ lookup.data.success) =>
        ipInfo = Info(lookup.data.ip, ClaimedIsp(lookup.data))

\* C16 as claimed: when the lookup fails in any way (the request is rejected,
\* the body cannot be parsed, the HTTP status is unsuccessful, or success is
\* false), networkInfo stays null, no second request is made and error stays
\* null.
C16_Claim ==
    (\/ lookup.outcome \in {"rejected", "unparseable"}
     \/ lookup.outcome = "parsed" /\ (~lookup.ok \/ ~lookup.data.success)) =>
        /\ ipInfo = NullInfo
        /\ lookup.requests = 1
        /\ error = NullString

\* the invocations of runTest between their start and their return
Active == {q \in Inv: ~Free(q)}

\* C19: runTest has no guard against reentrancy: invoked while an earlier
\* invocation is in its ping, download or upload phase, it is neither
\* rejected nor ignored; it clears the results, error and progress and sets
\* phase to ping, and it leaves the earlier invocation where it was, which
\* can still take its next step and write.
C19_NoReentrancyGuard ==
    /\ [](Cardinality(Active) = 1 => ENABLED DirectStart)
    /\ [][\A r \in Inv: (Started(r) /\ Active # {}) =>
             /\ phase' = "ping"
             /\ isTesting'
             /\ ping' = Null /\ jitter' = Null
             /\ downloadSpeed' = Null /\ uploadSpeed' = Null
             /\ error' = NullString
             /\ progress' = Num(0)
             /\ \A q \in Active: call'[q] = call[q]]_vars
    /\ [](\A q \in Active: ENABLED OfflineStep(q))

\* a second invocation, made during the download phase of the first, is at
\* its first probe, and the first has since entered the upload phase and
\* stored its download result
C19_Witness ==
    /\ call[2].pc = "pingFetch"
    /\ call[2].i = 0
    /\ call[2].from = "download"
    /\ call[1].pc = "ulSim"
    /\ phase = "upload"
    /\ downloadSpeed # Null

\* invocation r is inside a simulation whose promise is not yet resolved
InSimulation(r) == call[r].pc \in {"dlSim", "ulSim"}

\* the download of invocation r was simulated
Simulated(r) == call[r].path \in {"rejected", "notOk"}

\* C21: in every fallback simulation, of the download and of the upload, each
\* tick raises progress by exactly 5, so that progress is 5 times the number
\* of ticks fired; the simulation resolves on the tick that brings progress
\* to 100 and on no other, which is its 20th, and the value it resolves with
\* is an integer in [50, 150] for the download and in [10, 50] for the upload.
C21_Simulation ==
    /\ [](\A r \in Inv: InSimulation(r) =>
            /\ call[r].interval
            /\ call[r].ret = Null
            /\ call[r].ticks \in 0..19
            /\ call[r].currentProgress = 5 * call[r].ticks
            /\ progress = Num(5 * call[r].ticks))
    /\ [](\A r \in Inv: (call[r].pc = "dlDone" /\ Simulated(r)) =>
            /\ call[r].ticks = 20
            /\ progress = Num(100)
            /\ IntegerIn(call[r].ret, 50, 150))
    /\ [](\A r \in Inv: call[r].pc = "ulDone" =>
            /\ call[r].ticks = 20
            /\ progress = Num(100)
            /\ IntegerIn(call[r].ret, 10, 50))
    /\ [][\A r \in Inv: (InSimulation(r) /\ call'[r] # call[r]) =>
             /\ call'[r].ticks = call[r].ticks + 1
             /\ progress' = Num(progress.n + 5)
             /\ (call'[r].ret # Null <=> progress' = Num(100))
             /\ (call'[r].pc # call[r].pc <=> progress' = Num(100))]_vars

\* the upload simulation has resolved on its 20th tick, after the download
\* simulation did
C21_Witness ==
    /\ call[1].pc = "ulDone"
    /\ call[1].path = "rejected"
    /\ call[1].ticks = 20
    /\ progress = Num(100)
    /\ IntegerIn(downloadSpeed, 50, 150)
    /\ IntegerIn(call[1].ret, 10, 50)

\* C22: the timer of a simulation is cleared when the simulation resolves: a
\* timer is active only inside a simulation that has not resolved; once it
\* has resolved no tick of it fires and progress changes only by the reset of
\* the next phase or the next run; and with phase = complete, or idle, no
\* timer is active.
C22_TimersCleared ==
    /\ [](\A r \in Inv: call[r].interval => InSimulation(r))
    /\ [](phase \in {"idle", "complete"} => \A r \in Inv: ~call[r].interval)
    /\ [][\A r \in Inv: call[r].pc \in {"dlDone", "ulDone", "returned"} =>
             /\ call'[r].ticks \in {call[r].ticks, 0}
             /\ progress' \in {progress, Num(0)}]_vars

\* a run whose download and upload were simulated is complete, its timers
\* cleared
C22_Witness ==
    /\ phase = "complete"
    /\ call[1].pc = "returned"
    /\ call[1].path = "notOk"
    /\ call[1].ticks = 20
    /\ ~call[1].interval
    /\ progress = Num(100)

\* the probes of log whose request resolved
Resolved(log) == {k \in 1..Len(log): log[k] # -1}

\* C23: runPingTest makes exactly 5 iterations in every run: each probe,
\* resolved or rejected, is followed by one pause, the last one too, and the
\* routine returns after the fifth pause; the samples are as many as the
\* probes whose request resolved, between 0 and 5.
C23_FiveIterations ==
    /\ [](\A r \in Inv:
            /\ call[r].pc = "pingFetch" =>
                  call[r].i \in 0..(iterations - 1) /\ Len(call[r].log) = call[r].i
            /\ call[r].pc = "pingPause" =>
                  call[r].i \in 0..(iterations - 1) /\ Len(call[r].log) = call[r].i + 1
            /\ call[r].pc = "pingDone" =>
                  call[r].i = iterations /\ Len(call[r].log) = iterations
            /\ call[r].pc \in {"pingFetch", "pingPause", "pingDone"} =>
                  /\ Len(call[r].pings) = Cardinality(Resolved(call[r].log))
                  /\ Len(call[r].pings) = call[r].nOk
                  /\ Len(call[r].pings) \in 0..iterations)
    /\ [][\A r \in Inv: (call[r].pc = "pingFetch" /\ call'[r] # call[r]) =>
             /\ call'[r].pc = "pingPause"
             /\ call'[r].i = call[r].i
             /\ Len(call'[r].log) = Len(call[r].log) + 1]_vars
    /\ [][\A r \in Inv: (call[r].pc = "pingPause" /\ call'[r] # call[r]) =>
             /\ call'[r].i = call[r].i + 1
             /\ call'[r].log = call[r].log
             /\ call'[r].pc = (IF call[r].i + 1 < iterations
                               THEN "pingFetch" ELSE "pingDone")]_vars

\* runPingTest has returned after five probes, the second and the fourth
\* rejected, and five pauses
C23_Witness ==
    /\ call[1].pc = "pingDone"
    /\ call[1].i = iterations
    /\ call[1].log = <<1, -1, 4, -1, 7>>
    /\ Len(call[1].pings) = 3

\* C24: when a read of the body fails, the simulation is not run: the routine
\* returns 0 at once with no timer started and no tick fired, progress keeps
\* the value the last chunk read gave it (0 when none was read) until the
\* step that enters the upload phase sets it to 0, and that step stores 0 as
\* the download result.
C24_NoFallback ==
    /\ [](\A r \in Inv:
            /\ call[r].pc = "dlRead" =>
                  progress = (IF call[r].reads = 0 THEN Num(0)
                              ELSE StreamProgress(call[r].receivedLength,
                                                  call[r].contentLength))
            /\ (call[r].pc = "dlDone" /\ call[r].path = "streamFailed") =>
                  /\ call[r].ret = Num(0)
                  /\ call[r].ticks = 0
                  /\ ~call[r].interval)
    /\ [][\A r \in Inv: (call[r].pc = "dlRead" /\ call'[r].path = "streamFailed") =>
             /\ call'[r].pc = "dlDone"
             /\ progress' = progress]_vars
    /\ [][\A r \in Inv: (call[r].pc = "dlDone" /\ call[r].path = "streamFailed") =>
             \/ call'[r] = call[r] /\ progress' = progress
             \/ /\ call'[r].pc = "ulSim"
                /\ phase' = "upload"
                /\ progress' = Num(0)
                /\ downloadSpeed' = Num(0)]_vars

\* a read has failed after the chunks read had brought progress to 50
C24_Witness ==
    /\ call[1].pc = "dlDone"
    /\ call[1].path = "streamFailed"
    /\ call[1].ret = Num(0)
    /\ phase = "download"
    /\ progress = Num(50)

\* C25 as claimed: in every reachable state progress is a number in [0, 100],
\* whatever the Content-Length header (absent, zero, smaller than the bytes
\* received, not numeric) and whatever the path through the download and
\* upload phases.
C25_Claim ==
    /\ IsNumber(progress)
    /\ Leq(Num(0), progress)
    /\ Leq(progress, Num(100))

\* C28 as claimed: within the download phase (stream or simulation) and
\* within the upload phase, every update of progress sets it to a value
\* greater than or equal to the one before.
C28_Claim ==
    [][(phase' = phase /\ phase \in {"download", "upload"} /\ progress' # progress)
          => /\ IsNumber(progress')
             /\ Leq(progress, progress')]_vars

\* C26: each phase writes only its own fields. A step of a run taken in the
\* ping phase changes none of progress, downloadSpeed, uploadSpeed and error;
\* one taken in the download phase changes none of ping, jitter and
\* uploadSpeed, and downloadSpeed only when runDownloadTest has returned; one
\* taken in the upload phase changes none of ping, jitter, downloadSpeed and
\* error, and uploadSpeed only when runUploadTest has resolved; inside the
\* three routines phase and isTesting are not written; and no step of a run
\* changes networkInfo.
C26_PhaseFrame ==
    [][\A r \in Inv: call'[r] # call[r] =>
          /\ ipInfo' = ipInfo
          /\ phase = "ping" =>
                UNCHANGED <<progress, downloadSpeed, uploadSpeed, error>>
          /\ phase = "download" =>
                /\ UNCHANGED <<ping, jitter, uploadSpeed>>
                /\ downloadSpeed' # downloadSpeed => call[r].pc = "dlDone"
          /\ phase = "upload" =>
                /\ UNCHANGED <<ping, jitter, downloadSpeed, error>>
                /\ uploadSpeed' # uploadSpeed => call[r].pc = "ulDone"
          /\ call[r].pc \in {"pingFetch", "pingPause", "dlFetch", "dlRead",
                              "dlSim", "ulSim"} =>
                UNCHANGED <<phase, isTesting>>]_vars

\* a run is complete in which every phase wrote its fields: ping and jitter,
\* then error and the download result of a failed stream, then the upload
\* result; the lookup alone wrote networkInfo
C26_Witness ==
    /\ phase = "complete"
    /\ call[1].path = "streamFailed"
    /\ ping # Null /\ jitter # Null
    /\ error = Str(FailedMessage)
    /\ downloadSpeed = Num(0)
    /\ uploadSpeed # Null
    /\ ipInfo.set

\* C27: ping is null exactly when jitter is null: a step that changes one of
\* them either clears both, at the start of a run, or sets both, at the
\* return of runPingTest; and when exactly one probe resolved jitter is 0.
C27_PingJitterTogether ==
    /\ [](ping = Null <=> jitter = Null)
    /\ [](\A r \in Inv:
            (call[r].nOk = 1 /\ call[r].pc \notin {"idle", "pingFetch", "pingPause"})
               => ping # Null /\ jitter = Num(0))
    /\ [][(ping' # ping \/ jitter' # jitter) =>
             \/ /\ ping' = Null /\ jitter' = Null
                /\ \E r \in Inv: Started(r)
             \/ /\ ping = Null /\ jitter = Null
                /\ ping' # Null /\ jitter' # Null
                /\ \E r \in Inv: call[r].pc = "pingPause" /\ call'[r].pc = "pingDone"]_vars

\* runPingTest has returned with one sample, 3.5 ms: ping 4 and jitter 0
C27_Witness ==
    /\ call[1].pc = "pingDone"
    /\ call[1].pings = <<7>>
    /\ ping = Num(4)
    /\ jitter = Num(0)

\* C29: with runs started one at a time, isTesting is true exactly when phase
\* is ping, download or upload and false when it is idle or complete, and
\* the start button can be clicked exactly when no run is in progress.
C29_TestingIffRunning ==
    /\ phase \in {"idle", "ping", "download", "upload", "complete"}
    /\ isTesting <=> phase \in {"ping", "download", "upload"}
    /\ ENABLED ClickStart <=> \A r \in Inv: Free(r)
    /\ ENABLED ClickStart <=> phase \in {"idle", "complete"}

\* a second run is at the end of its upload phase, not yet complete
C29_Witness ==
    /\ isTesting
    /\ phase = "upload"
    /\ call[1].from = "complete"
    /\ call[1].pc = "ulDone"

\* C30: with runs started one at a time, once a run has started downloadSpeed
\* is non-null exactly when phase is upload or complete and uploadSpeed is
\* non-null exactly when phase is complete.
C30_ResultsMatchPhase ==
    phase # "idle" =>
        /\ downloadSpeed # Null <=> phase \in {"upload", "complete"}
        /\ uploadSpeed # Null <=> phase = "complete"

\* the upload phase has begun after a download response without a reader
C30_Witness ==
    /\ phase = "upload"
    /\ call[1].path = "noReader"
    /\ downloadSpeed = Num(0)
    /\ uploadSpeed = Null

\* C31: a latency probe whose request resolves contributes a sample whatever
\* the status of its response: the samples are as many as the responses, ok
\* or not, and ping and jitter are computed from all of them; only the
\* probes whose request was rejected are missing from the samples.
C31_StatusIgnored ==
    \A r \in Inv: call[r].pc \in {"pingFetch", "pingPause", "pingDone"} =>
        /\ Len(call[r].pings) = Len(call[r].statuses)
        /\ call[r].pings = OkSamples(call[r].log)
        /\ Len(call[r].log) - Len(call[r].pings)
              = Cardinality({k \in 1..Len(call[r].log): call[r].log[k] = -1})
        /\ (call[r].pc = "pingDone" /\ call[r].pings # <<>>) =>
              ResultsOf(call[r].pings)

\* of five probes two were rejected, one response was ok and two were not:
\* three samples, the least of them (0.5 ms) from a response that was not ok
C31_Witness ==
    /\ call[1].pc = "pingDone"
    /\ call[1].log = <<4, -1, 1, 7, -1>>
    /\ call[1].statuses = <<TRUE, FALSE, FALSE>>
    /\ call[1].pings = <<4, 1, 7>>
    /\ ping = Num(1)

\* C32: when the download response is ok but has no reader, the routine
\* takes the error path and not the simulation: error is the failure
\* message, the routine returns 0 with no timer started and no tick fired,
\* progress is still 0 when it returns, 0 is the download result from the
\* upload phase on, and the run goes on to upload and complete.
C32_NoReader ==
    /\ [](\A r \in Inv: call[r].path = "noReader" =>
            /\ error = Str(FailedMessage)
            /\ call[r].pc \in {"dlDone", "ulSim", "ulDone", "returned"}
            /\ call[r].pc = "dlDone" =>
                  /\ phase = "download"
                  /\ progress = Num(0)
                  /\ call[r].ret = Num(0)
                  /\ call[r].ticks = 0
                  /\ ~call[r].interval
            /\ call[r].pc # "dlDone" => downloadSpeed = Num(0))
    /\ (\E r \in Inv: call[r].path = "noReader" /\ phase = "download")
          ~> (\E r \in Inv: /\ call[r].path = "noReader"
                            /\ phase = "complete"
                            /\ call[r].visited = PhaseOrder)

\* the run whose download response had no reader is complete
C32_Witness ==
    /\ call[1].path = "noReader"
    /\ call[1].pc = "returned"
    /\ phase = "complete"
    /\ error = Str(FailedMessage)
    /\ downloadSpeed = Num(0)
    /\ IntegerIn(uploadSpeed, 10, 50)

\* C33: in every state with phase = complete, progress is 100, the value the
\* last tick of the upload simulation left, whatever the download phase did.
C33_CompleteAtHundred ==
    phase = "complete" =>
        /\ progress = Num(100)
        /\ \A r \in Inv: call[r].pc = "returned" => call[r].ticks = 20

\* complete after a download whose stream completed in no measurable time,
\* the download result being Infinity
C33_Witness ==
    /\ phase = "complete"
    /\ call[1].path = "streamDone"
    /\ downloadSpeed = Infinity
    /\ progress = Num(100)

\* C34 as claimed: after any sequence of startCamera and stopCamera calls, a
\* second startCamera while the first getUserMedia request is pending
\* included, every stream obtained is the one attached to the video element
\* or has had its tracks stopped; and after stopCamera with no start pending
\* no track is live and isActive is false.
C34_Claim ==
    /\ \A st \in 1..webcam.streams:
          st = webcam.srcObject \/ st \notin webcam.live
    /\ (webcam.last = "stop" /\ webcam.pending = 0) =>
          webcam.live = {} /\ ~webcam.isActive

====
